---- MODULE Spec2Model ----
(***************************************************************************)
(* The terminal chatbot of go-openai-chatbot: the input loop               *)
(* (MemoryChatbotService.RunMemoryChatbot), the inbound worker             *)
(* (StrategyOnce.SendtoOpenAI, the tool-orchestration loop) and the        *)
(* outbound worker (StrategyOnce.RecieveFromOpenAI), with the three        *)
(* unbuffered channels between them, the shared context and the wait       *)
(* group.  The completion gateway and the tool backends are the            *)
(* environment: every answer they can give is a nondeterministic choice.   *)
(* The tool registry (mcp.Manager) is modelled with its maps, its lock and *)
(* its operations RegisterServer, UnregisterServer and CallTool.           *)
(***************************************************************************)
EXTENDS Integers, Sequences, FiniteSets, TLC

\* ------------------------------------------------------------------ bounds
\* user messages the input loop dispatches in one session
MaxTurns == 2
\* tool calls the completion gateway requests in one session, all rounds together
MaxToolCalls == 2
\* calls of RegisterServer in one run of the registry
MaxRegisterCalls == 2
\* calls of UnregisterServer in one run of the registry
MaxUnregisterCalls == 1
\* chunks with content in one streamed reply
MaxChunks == 2

\* ------------------------------------------------------------------ state
VARIABLES
    AllowHistory,   \* OpenAIConfig.AllowHistory
    Messages,       \* OpenAIConfig.History.Messages, the transcript
    sessions,       \* Manager.sessions: backend name -> the session stored for it
    tools,          \* Manager.tools: backend name -> the tool names it reported
    schemas,        \* Manager.schemas: backend name -> the catalogue entries built for it
    order,          \* Manager.order: backend names in registration order
    mu,             \* Manager.mu: "free" or the registrar holding the write lock
    closed,         \* the sessions on which Close was called
    listing,        \* session -> the tool names its backend reports on ListTools
    rg,             \* the calls of RegisterServer in progress, by caller
    registerCalls,  \* calls of RegisterServer made so far
    unregisterCalls, \* calls of UnregisterServer made so far
    lastCall,       \* the last call of Manager.CallTool and how it ended
    paramTools,     \* param.Tools of the turn's requests
    paramMessages,  \* param.Messages of the last request
    toolCalls,      \* choice.Message.ToolCalls of the last response
    idx,            \* position of the range loop over toolCalls
    out,            \* the value the inbound worker is sending on reciever
    after,          \* what the inbound worker does after that send
    spc,            \* position of SendtoOpenAI
    rpc,            \* position of RecieveFromOpenAI
    mpc,            \* position of RunMemoryChatbot
    userMessage,    \* the trimmed input line
    ctxDone,        \* the shared context is cancelled
    jobsClosed,     \* JobMessages is closed
    recvClosed,     \* ReceiveMessages is closed
    wg,             \* the wait group's counter
    stdout,         \* the chatbot lines printed by the outbound worker
    turns,          \* user messages handed to the inbound worker
    dones,          \* completion signals the input loop received
    turnBase,       \* length of the transcript when the open turn's message arrived
    turnLog,        \* the gateway's answers of the open turn, in order
    nextId,         \* the gateway's tool-call id counter
    schema,         \* the argument of a call of ensureObjectSchema
    normalized,     \* the map that call returned
    epc,            \* position of that call
    assembling,     \* a tool list is being assembled from the map GetAllSchemas returned
    bg,             \* RegisterServers: the goroutine of each backend of the batch
    health,         \* how the backend of each goroutine answers Connect and ListTools
    gctx,           \* the errgroup's context is cancelled
    gerr,           \* the errgroup's first error
    finished,       \* the goroutines that returned, in the order they returned
    batchResult,    \* what RegisterServers returned
    pending,        \* StreamStrategy: the chunks the open stream has yet to deliver
    acc,            \* StreamStrategy: the accumulator of the open stream
    inStream        \* StreamStrategy.RecieveFromOpenAI: a reply is being printed

\* the registry besides its session map
regVars == <<tools, schemas, order, mu, closed, listing, rg, registerCalls,
             unregisterCalls, lastCall>>

\* calls of the mcp package's functions besides those on the registry's maps
schemaVars == <<schema, normalized, epc>>
batchVars == <<bg, health, gctx, gerr, finished, batchResult>>
streamVars == <<pending, acc, inStream>>
mcpVars == <<schemaVars, assembling, batchVars, streamVars>>

\* the variables of the chatbot's three goroutines
chatVars == <<AllowHistory, mcpVars, Messages, paramTools, paramMessages, toolCalls, idx, out,
              after, spc, rpc, mpc, userMessage, ctxDone, jobsClosed, recvClosed, wg,
              stdout, turns, dones, turnBase, turnLog, nextId>>

vars == <<AllowHistory, mcpVars, Messages, sessions, paramTools, paramMessages, toolCalls,
          idx, out, after, spc, rpc, mpc, userMessage, ctxDone, jobsClosed,
          recvClosed, wg, stdout, turns, dones, turnBase, turnLog, nextId, regVars>>

\* ------------------------------------------------------------------ strings
\* A tool name is the sequence of its characters.
SepChar == "_"

\* strings.Split(ToolName, "__"): cut at every leftmost, non-overlapping "__"
RECURSIVE SplitAcc(_, _)
SplitAcc(s, cur) ==
    IF s = <<>> THEN <<cur>>
    ELSE IF Len(s) >= 2 /\ s[1] = SepChar /\ s[2] = SepChar
         THEN <<cur>> \o SplitAcc(SubSeq(s, 3, Len(s)), <<>>)
         ELSE SplitAcc(Tail(s), Append(cur, Head(s)))

Split(s) == SplitAcc(s, <<>>)

\* cfg.Name + "__" + tool.Name
QualifiedName(b, t) == b \o <<SepChar, SepChar>> \o t

\* ------------------------------------------------------------------ messages
SystemMessage == [role |-> "system", content |-> "sys", id |-> 0, calls |-> <<>>]

UserMessage(m) == [role |-> "user", content |-> m, id |-> 0, calls |-> <<>>]

\* choice.Message.ToParam(): the assistant message with the ids of its tool calls
CallIds(calls) == [i \in 1..Len(calls) |-> calls[i].id]

AssistantMessage(content, calls) ==
    [role |-> "assistant", content |-> content, id |-> 0, calls |-> CallIds(calls)]

ToolMessage(content, id) == [role |-> "tool", content |-> content, id |-> id, calls |-> <<>>]

\* ------------------------------------------------------------------ environment
\* backend names and tool names, as character sequences
Weather == <<"w">>
Notion == <<"n">>
Forecast == <<"f">>

\* main registers one backend (src/main.go:61-65); Notion is never registered
RegisteredAtStart == {Weather}

\* the catalogue entries RegisterServer builds for a backend's tools
SchemasFor(b, reported) == {QualifiedName(b, t) : t \in reported}

\* Manager.GetAllSchemas flattened: the fully-qualified names on offer
Catalogue(sch) == UNION {sch[b] : b \in DOMAIN sch}

\* the session main's call of RegisterServer stored
FirstSession == 1

\* The argument payload of a tool call, by what the loop tests of it: whether
\* json.Unmarshal accepts it, whether it ends in "}" or "]", and whether the
\* repair branch produces a payload that json.Unmarshal accepts.
ArgsValid == [valid |-> TRUE, closed |-> TRUE, repairable |-> FALSE]
ArgsTruncatedFixable == [valid |-> FALSE, closed |-> FALSE, repairable |-> TRUE]
ArgsTruncated == [valid |-> FALSE, closed |-> FALSE, repairable |-> FALSE]
ArgsMalformed == [valid |-> FALSE, closed |-> TRUE, repairable |-> TRUE]

\* The tool calls the gateway may put in a response (ids are assigned on issue).
ToolCallShapes ==
    { [type |-> "function", name |-> QualifiedName(Weather, Forecast), args |-> ArgsValid],
      [type |-> "function", name |-> QualifiedName(Notion, Forecast), args |-> ArgsValid],
      [type |-> "function", name |-> Weather \o Forecast, args |-> ArgsValid],
      [type |-> "function", name |-> QualifiedName(QualifiedName(Weather, Forecast), Forecast),
       args |-> ArgsValid],
      [type |-> "custom", name |-> QualifiedName(Weather, Forecast), args |-> ArgsValid],
      [type |-> "function", name |-> QualifiedName(Weather, Forecast), args |-> ArgsTruncatedFixable],
      [type |-> "function", name |-> QualifiedName(Weather, Forecast), args |-> ArgsTruncated],
      [type |-> "function", name |-> QualifiedName(Weather, Forecast), args |-> ArgsMalformed] }

\* responses of 1..n tool calls
ShapeSeqs(n) == UNION { [1..k -> ToolCallShapes] : k \in 1..n }

\* the gateway numbers the calls of a response from its counter
Issue(shapes, base) ==
    [i \in 1..Len(shapes) |->
        [id |-> base + i, type |-> shapes[i].type, name |-> shapes[i].name,
         args |-> shapes[i].args]]

\* the text contents of a response without tool calls
Contents == {"", "text"}

\* ExitCommands matched without regard to case
ExitCommandsAnyCase == {"exit", "quit", "bye", "Exit", "QUIT"}

\* the trimmed input lines
ExitCommands == {"exit", "quit", "bye"}
Inputs == {"", "hello"} \cup ExitCommands

\* an answer of the gateway as recorded in turnLog
Answer(kind, content, calls) == [kind |-> kind, content |-> content, calls |-> calls]

\* the lines the inbound worker emits on failure
ErrorLine == "Error: request failed"
PanicLine == "Error: internal panic in SendtoOpenAI"

\* a backend name that ends in the separator's character
Underscored == <<"w", "_">>

\* a tool name that begins with the separator's character
Hidden == <<"_", "f">>

\* cfg.Name and cfg.Endpoint of the calls of RegisterServer
CfgNames == {<<>>, Weather, Underscored}
Endpoints == {"", "url"}

\* the names UnregisterServer is called with
UnregisterNames == {Weather, Underscored}

\* what a backend may report on ListTools
ReportedSets == {{Forecast}, {Forecast, Hidden}}

\* the tool names CallTool is called with: the entries of every catalogue, a
\* name of a backend that is never registered, a name without separator and
\* one with two
CallNames ==
    {QualifiedName(b, t) : b \in {Weather, Underscored, Notion}, t \in {Forecast, Hidden}}
    \cup {Weather \o Forecast, QualifiedName(QualifiedName(Weather, Forecast), Forecast)}

\* the callers of RegisterServer that may run at the same time
Registrars == {"r1", "r2"}

\* a caller that is not inside RegisterServer
Idle ==
    [pc |-> "idle", name |-> <<>>, endpoint |-> "", session |-> 0, reported |-> {},
     result |-> "none"]

\* no call of CallTool was made yet
NoCall == [name |-> <<>>, known |-> <<>>, outcome |-> "none", session |-> 0, tool |-> <<>>]

\* ------------------------------------------------------------------ Init
\* the workers and the input loop as RunMemoryChatbot starts them
\* acc := openai.ChatCompletionAccumulator{}: no chunk added, no choice yet
NoAcc == [state |-> "none", content |-> 0]

\* no stream is open and inStream := false
NoStream ==
    /\ pending = <<>>
    /\ acc = NoAcc
    /\ inStream = FALSE

ChatStart ==
    /\ NoStream
    /\ paramTools = {}
    /\ paramMessages = <<>>
    /\ toolCalls = <<>>
    /\ idx = 0
    /\ out = ""
    /\ after = "loop"
    /\ spc = "select"
    /\ rpc = "select"
    /\ mpc = "prompt"
    /\ userMessage = ""
    /\ ctxDone = FALSE
    /\ jobsClosed = FALSE
    /\ recvClosed = FALSE
    /\ wg = 2
    /\ stdout = <<>>
    /\ turns = 0
    /\ dones = 0
    /\ turnBase = 0
    /\ turnLog = <<>>
    /\ nextId = 0

\* a JSON value at the top level of a schema: a string, or a value of another
\* JSON type written as its text
Str(s) == [string |-> TRUE, text |-> s]
NonStr(s) == [string |-> FALSE, text |-> s]

\* map[string]any{}
EmptyObject == NonStr("{}")

\* a Go map without keys
EmptyMap == [k \in {} |-> EmptyObject]

\* a schema argument: nil, or a map from keys to JSON values
NilSchema == [isNil |-> TRUE, m |-> EmptyMap]
SchemaOf(m) == [isNil |-> FALSE, m |-> m]

\* the values a key of an input schema is drawn from
ValuesOf(k) ==
    CASE k = "type" -> {Str("object"), Str("array"), Str(""), NonStr("[\"object\",\"null\"]")}
      [] k = "properties" -> {EmptyObject, NonStr("{\"city\":{}}")}
      [] k = "required" -> {NonStr("[\"city\"]")}
      [] OTHER -> {Str("x")}

SchemaKeys == {"type", "properties", "required", "$defs", "$schema", "$id"}

\* the schemas json.Unmarshal hands to ensureObjectSchema, and nil
InputSchemas ==
    {NilSchema} \cup
    UNION {{SchemaOf(m) : m \in {f \in [ks -> UNION {ValuesOf(k) : k \in ks}] :
                                     \A k \in ks : f[k] \in ValuesOf(k)}} :
           ks \in SUBSET SchemaKeys}

\* the errors of RegisterServers: nil, the error RegisterServer returned for
\* the backend of goroutine p, and ctx.Err() returned by goroutine p
NoErr == [of |-> "", kind |-> "nil"]
RegisterErr(p) == [of |-> p, kind |-> "register"]
CtxErr(p) == [of |-> p, kind |-> "ctx"]

\* RegisterServers has not returned
Pending == [of |-> "", kind |-> "pending"]

\* backoff := 300 * time.Millisecond
FirstBackoff == 300

\* for attempt := 1; attempt <= 3; attempt++
MaxAttempts == 3

\* a goroutine of g.Go at the head of its loop, and no goroutine
Started ==
    [pc |-> "loop", attempt |-> 1, backoff |-> FirstBackoff, calls |-> 0, waits |-> <<>>,
     lastErr |-> NoErr, result |-> Pending]
NotStarted == [Started EXCEPT !.pc = "none"]

\* no call of RegisterServers: Connect and ListTools answer in any way
NoBatch ==
    /\ bg = [p \in Registrars |-> NotStarted]
    /\ health = [p \in Registrars |-> "any"]
    /\ gctx = FALSE
    /\ gerr = NoErr
    /\ finished = <<>>
    /\ batchResult = Pending

\* no call of ensureObjectSchema or RegisterServers, no tool list in assembly
McpStart ==
    /\ schema = NilSchema
    /\ normalized = EmptyMap
    /\ epc = "idle"
    /\ assembling = FALSE
    /\ NoBatch

\* the chatbot before the first input line
ChatInit ==
    /\ AllowHistory \in BOOLEAN
    /\ Messages = <<SystemMessage>>
    /\ ChatStart
    /\ McpStart

\* the registry after main registered its backend
RegistryStart ==
    /\ sessions = [b \in RegisteredAtStart |-> FirstSession]
    /\ tools = [b \in RegisteredAtStart |-> {Forecast}]
    /\ schemas = [b \in RegisteredAtStart |-> SchemasFor(b, {Forecast})]
    /\ order = <<Weather>>
    /\ mu = "free"
    /\ closed = {}
    /\ listing = [c \in {FirstSession} |-> {Forecast}]
    /\ rg = [p \in Registrars |-> Idle]
    /\ registerCalls = 0
    /\ unregisterCalls = 0
    /\ lastCall = NoCall

Init == ChatInit /\ RegistryStart

mainVars == <<mpc, userMessage, ctxDone, jobsClosed, recvClosed, dones>>
sendVars == <<Messages, paramTools, paramMessages, toolCalls, idx, out, after, spc,
              turns, turnBase, turnLog, nextId>>
recvVars == <<rpc, stdout>>

\* ------------------------------------------------------------------ input loop
\* RunMemoryChatbot, reader.ReadString + strings.TrimSpace: the next input line.
\* A line that is a message is offered only while the session's bound allows it.
ReadLine ==
    /\ mpc = "prompt"
    /\ \E line \in Inputs :
          /\ (line \notin ExitCommands /\ line # "") => turns < MaxTurns
          /\ userMessage' = line
    /\ mpc' = "switch"
    /\ UNCHANGED <<AllowHistory, mcpVars, sessions, ctxDone, jobsClosed, recvClosed, dones, wg>>
    /\ UNCHANGED <<sendVars, recvVars>>
    /\ UNCHANGED regVars

\* case "", " ": reprompt
Reprompt ==
    /\ mpc = "switch"
    /\ userMessage = ""
    /\ mpc' = "prompt"
    /\ UNCHANGED <<AllowHistory, mcpVars, sessions, userMessage, ctxDone, jobsClosed, recvClosed, dones, wg>>
    /\ UNCHANGED <<sendVars, recvVars>>
    /\ UNCHANGED regVars

\* ExitCancel leaving the context alive
ExitBreakOnly ==
    /\ mpc = "switch"
    /\ userMessage \in ExitCommands
    /\ userMessage' = ""
    /\ mpc' = "close"
    /\ UNCHANGED <<AllowHistory, mcpVars, sessions, ctxDone, jobsClosed, recvClosed, dones, wg>>
    /\ UNCHANGED <<sendVars, recvVars>>
    /\ UNCHANGED regVars

\* case "exit", "quit", "bye": cancel().  The line is not read again.
ExitCancel ==
    /\ mpc = "switch"
    /\ userMessage \in ExitCommands
    /\ ctxDone' = TRUE
    /\ userMessage' = ""
    /\ mpc' = "close"
    /\ UNCHANGED <<AllowHistory, mcpVars, sessions, jobsClosed, recvClosed, dones, wg>>
    /\ UNCHANGED <<sendVars, recvVars>>
    /\ UNCHANGED regVars

\* close(JobMessages)
ExitClose ==
    /\ mpc = "close"
    /\ jobsClosed' = TRUE
    /\ mpc' = "wait"
    /\ UNCHANGED <<AllowHistory, mcpVars, sessions, userMessage, ctxDone, recvClosed, dones, wg>>
    /\ UNCHANGED <<sendVars, recvVars>>
    /\ UNCHANGED regVars

\* ExitWait closing the output channel without waiting for the workers
ExitNoWait ==
    /\ mpc = "wait"
    /\ recvClosed' = TRUE
    /\ mpc' = "exited"
    /\ UNCHANGED <<AllowHistory, mcpVars, sessions, userMessage, ctxDone, jobsClosed, dones, wg>>
    /\ UNCHANGED <<sendVars, recvVars>>
    /\ UNCHANGED regVars

\* wg.Wait(); close(ReceiveMessages); return
ExitWait ==
    /\ mpc = "wait"
    /\ wg = 0
    /\ recvClosed' = TRUE
    /\ mpc' = "exited"
    /\ UNCHANGED <<AllowHistory, mcpVars, sessions, userMessage, ctxDone, jobsClosed, dones, wg>>
    /\ UNCHANGED <<sendVars, recvVars>>
    /\ UNCHANGED regVars

\* the input loop stands at JobMessages <- userMessage
Sending == mpc = "switch" /\ userMessage # "" /\ userMessage \notin ExitCommands

\* AfterDispatch without the wait for the completion signal
AfterDispatchNoWait == "prompt"

\* where the input loop goes once its send on JobMessages is taken:
\* dispatched = true, then the select on doneChan and ctx.Done()
AfterDispatch == "await"

\* the cases of the select after a dispatch that are ready
AwaitReady ==
    (IF rpc = "signal" THEN {"doneChan"} ELSE {}) \cup (IF ctxDone THEN {"ctx"} ELSE {})

\* select { case <-doneChan: continue; case <-ctx.Done(): return }, taking the
\* outbound worker's done <- true
Await ==
    /\ mpc = "await"
    /\ \E c \in AwaitReady :
          IF c = "doneChan"
          THEN /\ mpc' = "prompt"
               /\ rpc' = "select"
               /\ dones' = dones + 1
               /\ turnLog' = <<>>
               /\ turnBase' = 0
          ELSE /\ mpc' = "exited"
               /\ UNCHANGED <<rpc, dones, turnLog, turnBase>>
    /\ UNCHANGED <<AllowHistory, mcpVars, sessions, userMessage, ctxDone, jobsClosed, recvClosed, wg,
                   stdout>>
    /\ UNCHANGED <<Messages, paramTools, paramMessages, toolCalls, idx, out, after, spc,
                   turns, nextId>>
    /\ UNCHANGED regVars

\* ------------------------------------------------------------------ inbound worker
\* SendtoOpenAI, case <-ctx.Done(): return (and the deferred wg.Done)
SendCtxDone ==
    /\ spc = "select"
    /\ ctxDone
    /\ spc' = "done"
    /\ wg' = wg - 1
    /\ UNCHANGED <<AllowHistory, mcpVars, sessions, Messages, paramTools, paramMessages, toolCalls, idx,
                   out, after, turns, turnBase, turnLog, nextId>>
    /\ UNCHANGED <<mainVars, recvVars>>
    /\ UNCHANGED regVars

\* case message, ok := <-messages with !ok: return
SendJobsClosed ==
    /\ spc = "select"
    /\ jobsClosed
    /\ spc' = "done"
    /\ wg' = wg - 1
    /\ UNCHANGED <<AllowHistory, mcpVars, sessions, Messages, paramTools, paramMessages, toolCalls, idx,
                   out, after, turns, turnBase, turnLog, nextId>>
    /\ UNCHANGED <<mainVars, recvVars>>
    /\ UNCHANGED regVars

\* WithUserMessage dropping the oldest message of the transcript
WithUserMessageEvicting(msgs, m) == Append(Tail(msgs), UserMessage(m))

\* the transcript with the new user message:
\* w.Messages = append(w.Messages, openai.UserMessage(message))
WithUserMessage(msgs, m) == Append(msgs, UserMessage(m))

\* case message, ok := <-messages: the send of the input loop is taken, the tool
\* list is assembled and the user message appended.  The input loop does not
\* read its line again.
StartTurn ==
    /\ spc = "select"
    /\ Sending
    /\ ~jobsClosed
    /\ mpc' = AfterDispatch
    /\ userMessage' = ""
    /\ paramTools' = Catalogue(schemas)
    /\ Messages' = WithUserMessage(Messages, userMessage)
    /\ turns' = turns + 1
    /\ turnBase' = Len(Messages)
    /\ turnLog' = <<>>
    /\ spc' = "iterate"
    /\ UNCHANGED <<AllowHistory, mcpVars, sessions, paramMessages, toolCalls, idx, out, after, nextId,
                   ctxDone, jobsClosed, recvClosed, dones, wg>>
    /\ UNCHANGED recvVars
    /\ UNCHANGED regVars

\* RequestFailed retrying the request instead of ending the turn
RequestFailedRetry ==
    /\ spc = "iterate"
    /\ paramMessages' = Messages
    /\ turnLog' = Append(turnLog, Answer("error", "", <<>>))
    /\ spc' = "iterate"
    /\ UNCHANGED <<AllowHistory, mcpVars, sessions, Messages, paramTools, toolCalls, idx, turns,
                   turnBase, nextId, wg, out, after>>
    /\ UNCHANGED <<mainVars, recvVars>>
    /\ UNCHANGED regVars

\* RequestFailed recording the failure in the transcript
RequestFailedRecorded ==
    /\ spc = "iterate"
    /\ paramMessages' = Messages
    /\ Messages' = Append(Messages, AssistantMessage(ErrorLine, <<>>))
    /\ turnLog' = Append(turnLog, Answer("error", "", <<>>))
    /\ out' = ErrorLine
    /\ after' = "return"
    /\ spc' = "emit"
    /\ UNCHANGED <<AllowHistory, mcpVars, sessions, paramTools, toolCalls, idx, turns,
                   turnBase, nextId, wg>>
    /\ UNCHANGED <<mainVars, recvVars>>
    /\ UNCHANGED regVars

\* iterate: Completions.New returns an error: emit it and return
RequestFailed ==
    /\ spc = "iterate"
    /\ paramMessages' = Messages
    /\ turnLog' = Append(turnLog, Answer("error", "", <<>>))
    /\ out' = ErrorLine
    /\ after' = "return"
    /\ spc' = "emit"
    /\ UNCHANGED <<AllowHistory, mcpVars, sessions, Messages, paramTools, toolCalls, idx, turns,
                   turnBase, nextId, wg>>
    /\ UNCHANGED <<mainVars, recvVars>>
    /\ UNCHANGED regVars

\* RequestEmpty recording the empty response in the transcript
RequestEmptyRecorded ==
    /\ spc = "iterate"
    /\ paramMessages' = Messages
    /\ Messages' = Append(Messages, AssistantMessage("", <<>>))
    /\ turnLog' = Append(turnLog, Answer("empty", "", <<>>))
    /\ out' = PanicLine
    /\ after' = "return"
    /\ spc' = "emit"
    /\ UNCHANGED <<AllowHistory, mcpVars, sessions, paramTools, toolCalls, idx, turns,
                   turnBase, nextId, wg>>
    /\ UNCHANGED <<mainVars, recvVars>>
    /\ UNCHANGED regVars

\* iterate: a response with no choices: err is nil, err.Error() panics, the
\* deferred recover emits the panic line and the worker returns
RequestEmpty ==
    /\ spc = "iterate"
    /\ paramMessages' = Messages
    /\ turnLog' = Append(turnLog, Answer("empty", "", <<>>))
    /\ out' = PanicLine
    /\ after' = "return"
    /\ spc' = "emit"
    /\ UNCHANGED <<AllowHistory, mcpVars, sessions, Messages, paramTools, toolCalls, idx, turns,
                   turnBase, nextId, wg>>
    /\ UNCHANGED <<mainVars, recvVars>>
    /\ UNCHANGED regVars

\* WithFinalAnswer without the AllowHistory gate
WithFinalAnswerUngated(msgs, content) ==
    IF Len(content) > 0 THEN Append(msgs, AssistantMessage(content, <<>>)) ELSE msgs

\* the transcript after a response without tool calls
WithFinalAnswer(msgs, content) ==
    IF Len(content) > 0 /\ AllowHistory
    THEN Append(msgs, AssistantMessage(content, <<>>))
    ELSE msgs

\* iterate: a response whose first choice has no tool calls
RequestFinal ==
    /\ spc = "iterate"
    /\ \E content \in Contents :
          /\ Messages' = WithFinalAnswer(Messages, content)
          /\ out' = content
          /\ turnLog' = Append(turnLog, Answer("final", content, <<>>))
    /\ paramMessages' = Messages
    /\ toolCalls' = <<>>
    /\ after' = "loop"
    /\ spc' = "emit"
    /\ UNCHANGED <<AllowHistory, mcpVars, sessions, paramTools, idx, turns, turnBase, nextId, wg>>
    /\ UNCHANGED <<mainVars, recvVars>>
    /\ UNCHANGED regVars

\* WithToolRequest without the append of the requesting assistant message
WithToolRequestOmitted(msgs, content, calls) == msgs

\* the transcript after a response with tool calls
WithToolRequest(msgs, content, calls) ==
    IF AllowHistory THEN Append(msgs, AssistantMessage(content, calls)) ELSE msgs

\* iterate: a response whose first choice has tool calls
RequestToolCalls ==
    /\ spc = "iterate"
    /\ nextId < MaxToolCalls
    /\ \E shapes \in ShapeSeqs(MaxToolCalls - nextId) :
          /\ toolCalls' = Issue(shapes, nextId)
          /\ Messages' = WithToolRequest(Messages, "", Issue(shapes, nextId))
          /\ nextId' = nextId + Len(shapes)
          /\ turnLog' = Append(turnLog, Answer("tools", "", Issue(shapes, nextId)))
    /\ paramMessages' = Messages
    /\ idx' = 1
    /\ spc' = "loop"
    /\ UNCHANGED <<AllowHistory, mcpVars, sessions, paramTools, out, after, turns, turnBase, wg>>
    /\ UNCHANGED <<mainVars, recvVars>>
    /\ UNCHANGED regVars

\* CurrentCall ranging over the calls from the last to the first
CurrentCallReversed(calls, i) == calls[Len(calls) + 1 - i]

\* for _, toolCall := range toolCalls: the call at the loop's position
CurrentCall(calls, i) == calls[i]

\* json.Unmarshal fails and the repair of a payload not ending in "}" or "]"
\* does not produce one that parses: err != nil at the check that follows
ParseFails(a) == ~a.valid /\ ~(~a.closed /\ a.repairable)

\* WithToolResult without the AllowHistory gate
WithToolResultUngated(msgs, content, call) == Append(msgs, ToolMessage(content, call.id))

\* the tool message appended for a call, gated by AllowHistory
WithToolResult(msgs, content, call) ==
    IF AllowHistory THEN Append(msgs, ToolMessage(content, call.id)) ELSE msgs

\* Manager.CallTool: the outcomes for a name, given the registered sessions.
\* GetSession of an unregistered name is nil and the call on it panics.
CallToolOutcomes(name, sess) ==
    IF Len(Split(name)) # 2 THEN {"invalid"}
    ELSE IF Split(name)[1] \notin DOMAIN sess THEN {"panic"}
    ELSE {"result", "failed"}

\* the text appended for an outcome of CallTool
OutcomeText(o) == IF o = "result" THEN "result" ELSE "tool_error"

\* the range loop is exhausted: goto iterate
ToolLoopEnd ==
    /\ spc = "loop"
    /\ idx > Len(toolCalls)
    /\ spc' = "iterate"
    /\ UNCHANGED <<AllowHistory, mcpVars, sessions, Messages, paramTools, paramMessages, toolCalls, idx,
                   out, after, turns, turnBase, turnLog, nextId, wg>>
    /\ UNCHANGED <<mainVars, recvVars>>
    /\ UNCHANGED regVars

\* if toolCall.Type != "function" { continue }
ToolSkip ==
    /\ spc = "loop"
    /\ idx <= Len(toolCalls)
    /\ CurrentCall(toolCalls, idx).type # "function"
    /\ idx' = idx + 1
    /\ UNCHANGED <<AllowHistory, mcpVars, sessions, Messages, paramTools, paramMessages, toolCalls,
                   out, after, spc, turns, turnBase, turnLog, nextId, wg>>
    /\ UNCHANGED <<mainVars, recvVars>>
    /\ UNCHANGED regVars

\* ToolParse going on to the invocation after a parse failure
ToolParseThenCall ==
    /\ spc = "loop"
    /\ idx <= Len(toolCalls)
    /\ CurrentCall(toolCalls, idx).type = "function"
    /\ Messages' = IF ParseFails(CurrentCall(toolCalls, idx).args)
                   THEN WithToolResult(Messages, "error_parsing_args",
                                       CurrentCall(toolCalls, idx))
                   ELSE Messages
    /\ spc' = "call"
    /\ UNCHANGED <<AllowHistory, mcpVars, sessions, paramTools, paramMessages, toolCalls, idx,
                   out, after, turns, turnBase, turnLog, nextId, wg>>
    /\ UNCHANGED <<mainVars, recvVars>>
    /\ UNCHANGED regVars

\* parse the arguments; on failure append the parse error and continue
ToolParse ==
    /\ spc = "loop"
    /\ idx <= Len(toolCalls)
    /\ CurrentCall(toolCalls, idx).type = "function"
    /\ IF ParseFails(CurrentCall(toolCalls, idx).args)
       THEN /\ Messages' = WithToolResult(Messages, "error_parsing_args",
                                          CurrentCall(toolCalls, idx))
            /\ idx' = idx + 1
            /\ spc' = "loop"
       ELSE /\ spc' = "call"
            /\ UNCHANGED <<Messages, idx>>
    /\ UNCHANGED <<AllowHistory, mcpVars, sessions, paramTools, paramMessages, toolCalls,
                   out, after, turns, turnBase, turnLog, nextId, wg>>
    /\ UNCHANGED <<mainVars, recvVars>>
    /\ UNCHANGED regVars

\* w.MCPManager.CallTool and the append of its result or error; a panic is
\* recovered by the deferred function, which emits the panic line
ToolInvoke ==
    /\ spc = "call"
    /\ \E o \in CallToolOutcomes(CurrentCall(toolCalls, idx).name, sessions) :
          IF o = "panic"
          THEN /\ out' = PanicLine
               /\ after' = "return"
               /\ spc' = "emit"
               /\ UNCHANGED <<Messages, idx>>
          ELSE /\ Messages' = WithToolResult(Messages, OutcomeText(o),
                                             CurrentCall(toolCalls, idx))
               /\ idx' = idx + 1
               /\ spc' = "loop"
               /\ UNCHANGED <<out, after>>
    /\ UNCHANGED <<AllowHistory, mcpVars, sessions, paramTools, paramMessages, toolCalls,
                   turns, turnBase, turnLog, nextId, wg>>
    /\ UNCHANGED <<mainVars, recvVars>>
    /\ UNCHANGED regVars

\* ------------------------------------------------------------------ outbound worker
\* RecieveFromOpenAI, case <-ctx.Done(): return
RecvCtxDone ==
    /\ rpc = "select"
    /\ ctxDone
    /\ rpc' = "done"
    /\ wg' = wg - 1
    /\ UNCHANGED <<AllowHistory, mcpVars, sessions, stdout>>
    /\ UNCHANGED <<mainVars, sendVars>>
    /\ UNCHANGED regVars

\* where the inbound worker continues after its send on reciever was taken
AfterEmit(a) == IF a = "loop" THEN "select" ELSE "done"

\* case msg, ok := <-reciever: the inbound worker's send is taken and printed
\* (a closed channel ends the worker); done <- true follows.  The inbound
\* worker leaves the case body, whose locals (param, toolCalls) end with it.
Receive ==
    /\ rpc = "select"
    /\ recvClosed \/ spc = "emit"
    /\ IF recvClosed
       THEN /\ rpc' = "done"
            /\ wg' = wg - 1
            /\ UNCHANGED <<stdout, spc, paramTools, paramMessages, toolCalls, idx, out, after>>
       ELSE /\ stdout' = Append(stdout, out)
            /\ rpc' = "signal"
            /\ spc' = AfterEmit(after)
            /\ wg' = IF AfterEmit(after) = "done" THEN wg - 1 ELSE wg
            /\ paramTools' = {}
            /\ paramMessages' = <<>>
            /\ toolCalls' = <<>>
            /\ idx' = 0
            /\ out' = ""
            /\ after' = "loop"
    /\ UNCHANGED <<AllowHistory, mcpVars, sessions, Messages, turns, turnBase, turnLog, nextId>>
    /\ UNCHANGED mainVars
    /\ UNCHANGED regVars

\* ------------------------------------------------------------------ registry
\* a panic of RegisterServer is recovered nowhere: it ends the program
Running == \A p \in Registrars : rg[p].pc # "panicked"

\* RegisterValid without the test of the endpoint
RegisterValidNameOnly(name, endpoint) == name # <<>>

\* RegisterServer: cfg.Name == "" and cfg.Endpoint == "" are refused
RegisterValid(name, endpoint) == name # <<>> /\ endpoint # ""

\* a call of RegisterServer after the two tests of cfg: at client.Connect, or
\* returned with an error
Entered(name, endpoint) ==
    [pc |-> IF RegisterValid(name, endpoint) THEN "connect" ELSE "idle",
     name |-> name, endpoint |-> endpoint, session |-> 0, reported |-> {},
     result |-> IF RegisterValid(name, endpoint) THEN "none" ELSE "error"]

\* RegisterServer is called: the two tests of cfg, then on to client.Connect
RegisterBegin(p) ==
    /\ Running
    /\ rg[p].pc = "idle"
    /\ registerCalls < MaxRegisterCalls
    /\ \E name \in CfgNames, endpoint \in Endpoints :
          rg' = [rg EXCEPT ![p] = Entered(name, endpoint)]
    /\ registerCalls' = registerCalls + 1
    /\ UNCHANGED <<sessions, tools, schemas, order, mu, closed, listing, unregisterCalls,
                   lastCall>>
    /\ UNCHANGED chatVars

\* a session no earlier call of Connect returned
NewSession == Cardinality(DOMAIN listing) + 1

\* what client.Connect can answer to goroutine p: in a batch a backend that is
\* down refuses, and so does every backend once the context is cancelled
ConnectOutcomes(p) ==
    IF health[p] = "any" THEN {"ok", "fail"}
    ELSE IF gctx \/ health[p] = "down" THEN {"fail"} ELSE {"ok"}

\* what session.ListTools can answer to goroutine p: in a batch a mute backend
\* never lists, a late backend does not list at the first call, and no backend
\* lists once the context is cancelled
ListOutcomes(p) ==
    IF health[p] = "any" THEN {"ok", "fail"}
    ELSE IF gctx \/ health[p] = "mute" \/ (health[p] = "late" /\ bg[p].calls = 1)
         THEN {"fail"} ELSE {"ok"}

\* session, err := client.Connect(...): a new session to a backend serving
\* some tools, or nil and an error that is logged; ListTools comes next either way
RegisterConnect(p) ==
    /\ Running
    /\ rg[p].pc = "connect"
    /\ \/ \E served \in ReportedSets :
             /\ "ok" \in ConnectOutcomes(p)
             /\ rg' = [rg EXCEPT ![p].session = NewSession, ![p].pc = "list"]
             /\ listing' = [c \in DOMAIN listing \cup {NewSession} |->
                               IF c \in DOMAIN listing THEN listing[c] ELSE served]
       \/ /\ "fail" \in ConnectOutcomes(p)
          /\ rg' = [rg EXCEPT ![p].session = 0, ![p].pc = "list"]
          /\ UNCHANGED listing
    /\ UNCHANGED <<sessions, tools, schemas, order, mu, closed, registerCalls,
                   unregisterCalls, lastCall>>
    /\ UNCHANGED chatVars

\* RegisterList leaving the session open when the listing fails
RegisterListLeaking(p) ==
    /\ Running
    /\ rg[p].pc = "list"
    /\ IF rg[p].session = 0
       THEN rg' = [rg EXCEPT ![p].pc = "panicked", ![p].result = "panic"]
       ELSE \/ /\ "fail" \in ListOutcomes(p)
               /\ rg' = [rg EXCEPT ![p].pc = "idle", ![p].result = "error"]
            \/ /\ "ok" \in ListOutcomes(p)
               /\ rg' = [rg EXCEPT ![p].pc = "lock",
                                      ![p].reported = listing[rg[p].session]]
    /\ UNCHANGED <<sessions, tools, schemas, order, mu, closed, listing, registerCalls,
                   unregisterCalls, lastCall>>
    /\ UNCHANGED chatVars

\* toolsResult, err := session.ListTools(...): on the nil session of a failed
\* Connect the call panics; on error the session is closed and the error
\* returned; otherwise the schemas are built from the tools reported
RegisterList(p) ==
    /\ Running
    /\ rg[p].pc = "list"
    /\ IF rg[p].session = 0
       THEN /\ rg' = [rg EXCEPT ![p].pc = "panicked", ![p].result = "panic"]
            /\ UNCHANGED closed
       ELSE \/ /\ "fail" \in ListOutcomes(p)
               /\ rg' = [rg EXCEPT ![p].pc = "idle", ![p].result = "error"]
               /\ closed' = closed \cup {rg[p].session}
            \/ /\ "ok" \in ListOutcomes(p)
               /\ rg' = [rg EXCEPT ![p].pc = "lock",
                                      ![p].reported = listing[rg[p].session]]
               /\ UNCHANGED closed
    /\ UNCHANGED <<sessions, tools, schemas, order, mu, listing, registerCalls,
                   unregisterCalls, lastCall>>
    /\ UNCHANGED chatVars

\* LockedBy without taking the lock
LockedByNobody(p) == "free"

\* the value of mu while p holds the write lock
LockedBy(p) == p

\* m.mu.Lock()
RegisterLock(p) ==
    /\ Running
    /\ rg[p].pc = "lock"
    /\ mu = "free"
    /\ mu' = LockedBy(p)
    /\ rg' = [rg EXCEPT ![p].pc = "close"]
    /\ UNCHANGED <<sessions, tools, schemas, order, closed, listing, registerCalls,
                   unregisterCalls, lastCall>>
    /\ UNCHANGED chatVars

\* RegisterCloseOld leaving the old session open
RegisterKeepOld(p) ==
    /\ Running
    /\ rg[p].pc = "close"
    /\ rg' = [rg EXCEPT ![p].pc = "sessions"]
    /\ UNCHANGED <<sessions, tools, schemas, order, mu, closed, listing, registerCalls,
                   unregisterCalls, lastCall>>
    /\ UNCHANGED chatVars

\* if oldSess, ok := m.sessions[cfg.Name]; ok { _ = oldSess.Close() }
RegisterCloseOld(p) ==
    /\ Running
    /\ rg[p].pc = "close"
    /\ closed' = IF rg[p].name \in DOMAIN sessions
                 THEN closed \cup {sessions[rg[p].name]}
                 ELSE closed
    /\ rg' = [rg EXCEPT ![p].pc = "sessions"]
    /\ UNCHANGED <<sessions, tools, schemas, order, mu, listing, registerCalls,
                   unregisterCalls, lastCall>>
    /\ UNCHANGED chatVars

\* m[k] = v of a Go map
Put(m, k, v) == [x \in DOMAIN m \cup {k} |-> IF x = k THEN v ELSE m[x]]

\* delete(m, k) of a Go map
Delete(m, k) == [x \in DOMAIN m \ {k} |-> m[x]]

\* m.sessions[cfg.Name] = session
RegisterStoreSession(p) ==
    /\ Running
    /\ rg[p].pc = "sessions"
    /\ sessions' = Put(sessions, rg[p].name, rg[p].session)
    /\ rg' = [rg EXCEPT ![p].pc = "tools"]
    /\ UNCHANGED <<tools, schemas, order, mu, closed, listing, registerCalls,
                   unregisterCalls, lastCall>>
    /\ UNCHANGED chatVars

\* m.tools[cfg.Name] = toolsResult.Tools
RegisterStoreTools(p) ==
    /\ Running
    /\ rg[p].pc = "tools"
    /\ tools' = Put(tools, rg[p].name, rg[p].reported)
    /\ rg' = [rg EXCEPT ![p].pc = "schemas"]
    /\ UNCHANGED <<sessions, schemas, order, mu, closed, listing, registerCalls,
                   unregisterCalls, lastCall>>
    /\ UNCHANGED chatVars

\* m.schemas[cfg.Name] = openAISchemas
RegisterStoreSchemas(p) ==
    /\ Running
    /\ rg[p].pc = "schemas"
    /\ schemas' = Put(schemas, rg[p].name, SchemasFor(rg[p].name, rg[p].reported))
    /\ rg' = [rg EXCEPT ![p].pc = "order"]
    /\ UNCHANGED <<sessions, tools, order, mu, closed, listing, registerCalls,
                   unregisterCalls, lastCall>>
    /\ UNCHANGED chatVars

\* InOrder that never finds the name
InOrderNever(name) == FALSE

\* the name is somewhere in the order list
InOrder(name) == \E i \in 1..Len(order) : order[i] = name

\* append to order if not already there; m.mu.Unlock(); return nil
RegisterOrderUnlock(p) ==
    /\ Running
    /\ rg[p].pc = "order"
    /\ order' = IF InOrder(rg[p].name) THEN order ELSE Append(order, rg[p].name)
    /\ mu' = "free"
    /\ rg' = [rg EXCEPT ![p].pc = "idle", ![p].result = "ok"]
    /\ UNCHANGED <<sessions, tools, schemas, closed, listing, registerCalls,
                   unregisterCalls, lastCall>>
    /\ UNCHANGED chatVars

\* UnregisterServer without delete(m.schemas, name)
UnregisterKeepingSchemas ==
    /\ Running
    /\ mu = "free"
    /\ unregisterCalls < MaxUnregisterCalls
    /\ \E name \in UnregisterNames :
          /\ closed' = IF name \in DOMAIN sessions
                       THEN closed \cup {sessions[name]}
                       ELSE closed
          /\ sessions' = Delete(sessions, name)
          /\ tools' = Delete(tools, name)
    /\ unregisterCalls' = unregisterCalls + 1
    /\ UNCHANGED <<schemas, order, mu, listing, rg, registerCalls, lastCall>>
    /\ UNCHANGED chatVars

\* UnregisterServer(name), all of it under the write lock: the session is
\* closed and removed, tools and schemas are deleted; order is not touched
UnregisterServer ==
    /\ Running
    /\ mu = "free"
    /\ unregisterCalls < MaxUnregisterCalls
    /\ \E name \in UnregisterNames :
          /\ closed' = IF name \in DOMAIN sessions
                       THEN closed \cup {sessions[name]}
                       ELSE closed
          /\ sessions' = Delete(sessions, name)
          /\ tools' = Delete(tools, name)
          /\ schemas' = Delete(schemas, name)
    /\ unregisterCalls' = unregisterCalls + 1
    /\ UNCHANGED <<order, mu, listing, rg, registerCalls, lastCall>>
    /\ UNCHANGED chatVars

\* GetAllSchemas(): under the read lock, return m.schemas, the registry's map
\* itself; the caller starts ranging over it with the lock released
GetAllSchemas ==
    /\ Running
    /\ mu = "free"
    /\ ~assembling
    /\ assembling' = TRUE
    /\ UNCHANGED <<AllowHistory, schemaVars, batchVars, streamVars, sessions, wg>>
    /\ UNCHANGED <<mainVars, sendVars, recvVars, regVars>>

\* for _, tool := range ...: the range over the returned map ends
AssembleTools ==
    /\ assembling
    /\ assembling' = FALSE
    /\ UNCHANGED <<AllowHistory, schemaVars, batchVars, streamVars, sessions, wg>>
    /\ UNCHANGED <<mainVars, sendVars, recvVars, regVars>>

\* ListServers(): the keys of m.sessions, in any order
ListServers == DOMAIN sessions

\* ListServersInOrder(): a copy of m.order
ListServersInOrder == order

\* Route forwarding a name of more than two parts by its first two
RouteLenient(name, sess) ==
    IF Len(Split(name)) < 2
    THEN [outcome |-> "invalid", session |-> 0, tool |-> <<>>]
    ELSE IF Split(name)[1] \notin DOMAIN sess
         THEN [outcome |-> "panic", session |-> 0, tool |-> <<>>]
         ELSE [outcome |-> "forwarded", session |-> sess[Split(name)[1]],
               tool |-> Split(name)[2]]

\* Manager.CallTool: the name is split; unless it has exactly two parts an
\* error is returned; the call goes to the session stored under the first part
\* with the second part as the tool's name; that session is nil for a name
\* that is not stored, and the call on it panics
Route(name, sess) ==
    IF Len(Split(name)) # 2
    THEN [outcome |-> "invalid", session |-> 0, tool |-> <<>>]
    ELSE IF Split(name)[1] \notin DOMAIN sess
         THEN [outcome |-> "panic", session |-> 0, tool |-> <<>>]
         ELSE [outcome |-> "forwarded", session |-> sess[Split(name)[1]],
               tool |-> Split(name)[2]]

\* a call of Manager.CallTool; GetSession takes the read lock
CallTool ==
    /\ Running
    /\ \E name \in CallNames :
          /\ Len(Split(name)) = 2 => mu = "free"
          /\ lastCall' = [name |-> name, known |-> sessions,
                          outcome |-> Route(name, sessions).outcome,
                          session |-> Route(name, sessions).session,
                          tool |-> Route(name, sessions).tool]
    /\ UNCHANGED <<sessions, tools, schemas, order, mu, closed, listing, rg,
                   registerCalls, unregisterCalls>>
    /\ UNCHANGED chatVars

\* ------------------------------------------------------------------ specification
Next ==
    \/ ReadLine
    \/ Reprompt
    \/ ExitCancel
    \/ ExitClose
    \/ ExitWait
    \/ Await
    \/ SendCtxDone
    \/ SendJobsClosed
    \/ StartTurn
    \/ RequestFailed
    \/ RequestEmpty
    \/ RequestFinal
    \/ RequestToolCalls
    \/ ToolLoopEnd
    \/ ToolSkip
    \/ ToolParse
    \/ ToolInvoke
    \/ RecvCtxDone
    \/ Receive

Spec == Init /\ [][Next]_vars

\* trimmed input lines that differ from an exit command by case only
CasedInputs == {"Exit", "QUIT"}

\* reader.ReadString + strings.TrimSpace giving such a line
ReadCasedLine ==
    /\ mpc = "prompt"
    /\ turns < MaxTurns
    /\ \E line \in CasedInputs : userMessage' = line
    /\ mpc' = "switch"
    /\ UNCHANGED <<AllowHistory, mcpVars, sessions, ctxDone, jobsClosed, recvClosed, dones, wg>>
    /\ UNCHANGED <<sendVars, recvVars>>
    /\ UNCHANGED regVars

\* the chatbot with these lines among its input, next to a gateway that
\* answers without tool calls, fails or answers with no choice
InputNext ==
    \/ ReadLine
    \/ ReadCasedLine
    \/ Reprompt
    \/ ExitCancel
    \/ ExitClose
    \/ ExitWait
    \/ Await
    \/ SendCtxDone
    \/ SendJobsClosed
    \/ StartTurn
    \/ RequestFailed
    \/ RequestEmpty
    \/ RequestFinal
    \/ RecvCtxDone
    \/ Receive

InputSpec == Init /\ [][InputNext]_vars

\* the registry's operations, called by any number of clients
RegistryNext ==
    \/ \E p \in Registrars :
          \/ RegisterBegin(p)
          \/ RegisterConnect(p)
          \/ RegisterList(p)
          \/ RegisterLock(p)
          \/ RegisterCloseOld(p)
          \/ RegisterStoreSession(p)
          \/ RegisterStoreTools(p)
          \/ RegisterStoreSchemas(p)
          \/ RegisterOrderUnlock(p)
    \/ UnregisterServer

\* the registry next to a chatbot with history enabled, as main configures it
RegistryInit == Init /\ AllowHistory

RegistrySpec == RegistryInit /\ [][RegistryNext]_vars

\* ------------------------------------------------------------------ RegisterServers
\* cfgs[i] of goroutine p; a backend that is unset has no endpoint configured
BatchCfg(p) ==
    [name |-> IF p = "r1" THEN Weather ELSE Notion,
     endpoint |-> IF health[p] = "unset" THEN "" ELSE "url"]

\* how a backend of a batch can be
Healths == {"up", "late", "mute", "down", "unset"}

\* what the batch actions leave alone besides the registry
batchFrame == <<AllowHistory, wg, schemaVars, assembling, streamVars, mainVars, sendVars, recvVars>>

\* the goroutine returns err: errgroup keeps the first error that is not nil
\* and cancels its context with it
Return(p, err, next) ==
    /\ bg' = [next EXCEPT ![p].pc = "ended", ![p].result = err]
    /\ finished' = Append(finished, p)
    /\ IF err # NoErr /\ gerr = NoErr
       THEN gerr' = err /\ gctx' = TRUE
       ELSE UNCHANGED <<gerr, gctx>>

\* m.RegisterServer(ctx, &cfg) is called by the goroutine of p
BatchCall(p) ==
    /\ Running
    /\ bg[p].pc = "loop"
    /\ rg' = [rg EXCEPT ![p] = Entered(BatchCfg(p).name, BatchCfg(p).endpoint)]
    /\ bg' = [bg EXCEPT ![p].pc = "called", ![p].calls = @ + 1]
    /\ UNCHANGED <<sessions, tools, schemas, order, mu, closed, listing, registerCalls,
                   unregisterCalls, lastCall>>
    /\ UNCHANGED <<health, gctx, gerr, finished, batchResult>>
    /\ UNCHANGED batchFrame

\* RegisterServer returned: nil ends the goroutine with nil, an error is kept
\* in lastErr and the goroutine goes to its select
BatchReturned(p) ==
    /\ Running
    /\ bg[p].pc = "called"
    /\ rg[p].pc = "idle"
    /\ IF rg[p].result = "ok"
       THEN Return(p, NoErr, bg)
       ELSE /\ bg' = [bg EXCEPT ![p].pc = "select", ![p].lastErr = RegisterErr(p)]
            /\ UNCHANGED <<gerr, gctx, finished>>
    /\ UNCHANGED <<sessions, regVars>>
    /\ UNCHANGED <<health, batchResult>>
    /\ UNCHANGED batchFrame

\* select: after the backoff the wait doubles and the loop goes on, returning
\* lastErr when the attempts are used up; or ctx.Done() and ctx.Err() is returned
BatchSelect(p) ==
    /\ Running
    /\ bg[p].pc = "select"
    /\ \/ LET waited == [bg EXCEPT ![p].waits = Append(@, bg[p].backoff),
                                     ![p].backoff = 2 * @,
                                     ![p].attempt = @ + 1]
          IN  IF bg[p].attempt + 1 <= MaxAttempts
              THEN /\ bg' = [waited EXCEPT ![p].pc = "loop"]
                   /\ UNCHANGED <<gerr, gctx, finished>>
              ELSE Return(p, bg[p].lastErr, waited)
       \/ /\ gctx
          /\ Return(p, CtxErr(p), bg)
    /\ UNCHANGED <<sessions, regVars>>
    /\ UNCHANGED <<health, batchResult>>
    /\ UNCHANGED batchFrame

\* return g.Wait(): every goroutine has returned; the first error or nil
BatchWait ==
    /\ Running
    /\ batchResult = Pending
    /\ \A p \in Registrars : bg[p].pc = "ended"
    /\ batchResult' = gerr
    /\ UNCHANGED <<sessions, regVars>>
    /\ UNCHANGED <<bg, health, gctx, gerr, finished>>
    /\ UNCHANGED batchFrame

\* RegisterServers on an empty registry with a batch of two backends, each in
\* any health; the caller's context has no deadline
BatchInit ==
    /\ AllowHistory = TRUE
    /\ Messages = <<SystemMessage>>
    /\ ChatStart
    /\ schema = NilSchema /\ normalized = EmptyMap /\ epc = "idle"
    /\ assembling = FALSE
    /\ sessions = [b \in {} |-> FirstSession]
    /\ tools = [b \in {} |-> {}]
    /\ schemas = [b \in {} |-> {}]
    /\ order = <<>>
    /\ mu = "free"
    /\ closed = {}
    /\ listing = [c \in {} |-> {}]
    /\ rg = [p \in Registrars |-> Idle]
    /\ registerCalls = 0
    /\ unregisterCalls = 0
    /\ lastCall = NoCall
    /\ bg = [p \in Registrars |-> Started]
    /\ health \in [Registrars -> Healths]
    /\ gctx = FALSE
    /\ gerr = NoErr
    /\ finished = <<>>
    /\ batchResult = Pending

BatchNext ==
    \/ \E p \in Registrars : BatchCall(p)
    \/ \E p \in Registrars : RegisterConnect(p)
    \/ \E p \in Registrars : RegisterList(p)
    \/ \E p \in Registrars : RegisterLock(p)
    \/ \E p \in Registrars : RegisterCloseOld(p)
    \/ \E p \in Registrars : RegisterStoreSession(p)
    \/ \E p \in Registrars : RegisterStoreTools(p)
    \/ \E p \in Registrars : RegisterStoreSchemas(p)
    \/ \E p \in Registrars : RegisterOrderUnlock(p)
    \/ \E p \in Registrars : BatchReturned(p)
    \/ \E p \in Registrars : BatchSelect(p)
    \/ BatchWait

BatchSpec == BatchInit /\ [][BatchNext]_vars

\* the session stored for a backend name in the registries RoutingInit draws
SessionOf(b) == IF b = Weather THEN FirstSession ELSE FirstSession + 1

\* the order list of the registries RoutingInit draws
OrderOf(reg) ==
    (IF Weather \in reg THEN <<Weather>> ELSE <<>>)
    \o (IF Underscored \in reg THEN <<Underscored>> ELSE <<>>)

\* the registry after any successful registrations of the backend names, each
\* backend reporting any of the tool sets
RoutingInit ==
    /\ ChatInit
    /\ \E reg \in SUBSET {Weather, Underscored} :
          \E reported \in [reg -> ReportedSets] :
             /\ sessions = [b \in reg |-> SessionOf(b)]
             /\ tools = reported
             /\ schemas = [b \in reg |-> SchemasFor(b, reported[b])]
             /\ order = OrderOf(reg)
             /\ listing = [c \in {SessionOf(b) : b \in reg} |->
                              reported[CHOOSE b \in reg : SessionOf(b) = c]]
    /\ mu = "free"
    /\ closed = {}
    /\ rg = [p \in Registrars |-> Idle]
    /\ registerCalls = 0
    /\ unregisterCalls = 0
    /\ lastCall = NoCall

\* CallTool for every name and the assembly of tool lists, on every such
\* registry and next to UnregisterServer
RoutingNext == CallTool \/ UnregisterServer \/ GetAllSchemas \/ AssembleTools

RoutingSpec == RoutingInit /\ [][RoutingNext]_vars

\* the chatbot next to a client of the registry that unregisters backends
LiveNext == Next \/ UnregisterServer

LiveSpec == Init /\ [][LiveNext]_vars

\* ------------------------------------------------------------------ ensureObjectSchema
\* delete(schema, k) for every k of ks
DeleteAll(m, ks) == [x \in DOMAIN m \ ks |-> m[x]]

\* t, ok := schema["type"].(string); !ok || t == ""
TypeMissing(m) == ~("type" \in DOMAIN m /\ m["type"].string /\ m["type"].text # "")

\* WithObjectType removing the type it does not replace
WithObjectTypeOrNone(m) ==
    IF TypeMissing(m) THEN Put(m, "type", Str("object")) ELSE DeleteAll(m, {"type"})

\* if the type is missing, not a string or empty: schema["type"] = "object"
WithObjectType(m) == IF TypeMissing(m) THEN Put(m, "type", Str("object")) ELSE m

\* if there is no properties key: schema["properties"] = map[string]any{}
WithProperties(m) == IF "properties" \in DOMAIN m THEN m ELSE Put(m, "properties", EmptyObject)

\* ensureObjectSchema(schema)
ensureObjectSchema(s) ==
    IF s.isNil
    THEN Put(Put(EmptyMap, "type", Str("object")), "properties", EmptyObject)
    ELSE WithProperties(WithObjectType(DeleteAll(s.m, {"$defs", "$schema", "$id"})))

\* normalized := ensureObjectSchema(m)
EnsureObjectSchema ==
    /\ epc = "call"
    /\ normalized' = ensureObjectSchema(schema)
    /\ epc' = "returned"
    /\ UNCHANGED <<AllowHistory, sessions, wg, schema, assembling, batchVars, streamVars>>
    /\ UNCHANGED <<mainVars, sendVars, recvVars, regVars>>

\* a call of ensureObjectSchema with any of the input schemas
SchemaInit ==
    /\ AllowHistory = TRUE
    /\ Messages = <<SystemMessage>>
    /\ ChatStart
    /\ RegistryStart
    /\ schema \in InputSchemas
    /\ normalized = EmptyMap
    /\ epc = "call"
    /\ assembling = FALSE
    /\ NoBatch

\* ensureObjectSchema is called with the map an earlier call returned
EnsureObjectSchemaAgain ==
    /\ epc = "returned"
    /\ schema' = SchemaOf(normalized)
    /\ normalized' = ensureObjectSchema(SchemaOf(normalized))
    /\ epc' = "again"
    /\ UNCHANGED <<AllowHistory, sessions, wg, assembling, batchVars, streamVars>>
    /\ UNCHANGED <<mainVars, sendVars, recvVars, regVars>>

SchemaNext == EnsureObjectSchema \/ EnsureObjectSchemaAgain

SchemaSpec == SchemaInit /\ [][SchemaNext]_vars

\* HistorySize: 5, the history size main configures
HistorySize == 5

\* the transcript after k turns that each ended with a text answer
RECURSIVE PlainTurns(_)
PlainTurns(k) ==
    IF k = 0
    THEN <<SystemMessage>>
    ELSE WithFinalAnswer(WithUserMessage(PlainTurns(k - 1), "hello"), "text")

\* the chatbot of main at the prompt after HistorySize + 1 such turns; turns,
\* dones and stdout count the turns and the printed lines from this prompt on
HistoryInit ==
    /\ AllowHistory = TRUE
    /\ Messages = PlainTurns(HistorySize + 1)
    /\ ChatStart
    /\ McpStart
    /\ RegistryStart

HistorySpec == HistoryInit /\ [][Next]_vars

\* ------------------------------------------------------------------ transcript operators
IsTool(m) == m.role = "tool"
HasCalls(m) == m.role = "assistant" /\ Len(m.calls) > 0

\* index of the nearest assistant message before position i, 0 when there is none
RECURSIVE PrecedingAssistant(_, _)
PrecedingAssistant(msgs, i) ==
    IF i <= 1 THEN 0
    ELSE IF msgs[i - 1].role = "assistant" THEN i - 1
    ELSE PrecedingAssistant(msgs, i - 1)

\* number of entries of the sequence of ids equal to id
Occurrences(ids, id) == Cardinality({k \in 1..Len(ids) : ids[k] = id})

\* number of tool messages tagged id at positions lo..hi
ToolReplies(msgs, lo, hi, id) ==
    Cardinality({k \in lo..hi : IsTool(msgs[k]) /\ msgs[k].id = id})

\* the roles of the messages from position lo on
RolesFrom(msgs, lo) == [k \in 1..(Len(msgs) - lo + 1) |-> msgs[lo + k - 1].role]

\* position of id in a sequence of distinct ids, 0 when absent
PositionOf(ids, id) ==
    IF \E k \in 1..Len(ids) : ids[k] = id
    THEN CHOOSE k \in 1..Len(ids) : ids[k] = id
    ELSE 0

\* ------------------------------------------------------------------ C1
\* C1: every tool message of the transcript carries a call id of the nearest
\* preceding assistant message, only tool messages lie between the two, and the
\* assistant message still had an unanswered call with that id.
C1_ToolPairing ==
    \A i \in 1..Len(Messages) :
        IsTool(Messages[i]) =>
            LET j == PrecedingAssistant(Messages, i) IN
            /\ j > 0
            /\ Occurrences(Messages[j].calls, Messages[i].id) > 0
            /\ \A k \in (j + 1)..(i - 1) : IsTool(Messages[k])
            /\ ToolReplies(Messages, j + 1, i, Messages[i].id)
                  <= Occurrences(Messages[j].calls, Messages[i].id)

\* two tool rounds in the transcript, each with an answered call
C1_Witness ==
    \E i, j, k \in 1..Len(Messages) :
        /\ i < j /\ j < k
        /\ IsTool(Messages[i]) /\ HasCalls(Messages[j]) /\ IsTool(Messages[k])

\* ------------------------------------------------------------------ C2
Last(q) == q[Len(q)]

\* the open turn's last answer is of the given kind
LastAnswerIs(kind) == turnLog # <<>> /\ Last(turnLog).kind = kind

\* C2: as long as the last answer of the open turn is a response with tool calls,
\* the inbound worker is processing those calls or about to send the next
\* completion request; it has emitted nothing in this turn, the outbound worker
\* has nothing to print and the input loop is still waiting for the turn.
C2_RequeryAfterToolCalls ==
    LastAnswerIs("tools") =>
        /\ spc \in {"loop", "call", "iterate"}
        /\ rpc = "select"
        /\ mpc = "await"
        /\ Len(stdout) = turns - 1

\* ------------------------------------------------------------------ C3
\* the messages from position lo to position hi are all tool messages
ToolRun(msgs, lo, hi) == \A k \in lo..hi : IsTool(msgs[k])

\* C3: the tool messages that follow an assistant message stand in the order of
\* its calls; while the calls of a response are processed, that assistant message
\* is already in the transcript, only tool messages follow it, and they answer
\* calls the range loop has finished with.
C3_ToolOrder ==
    /\ \A j \in 1..Len(Messages) :
          HasCalls(Messages[j]) =>
              \A a, b \in (j + 1)..Len(Messages) :
                  (a < b /\ ToolRun(Messages, j + 1, b)) =>
                      /\ PositionOf(Messages[j].calls, Messages[a].id) > 0
                      /\ PositionOf(Messages[j].calls, Messages[a].id)
                            < PositionOf(Messages[j].calls, Messages[b].id)
    /\ (AllowHistory /\ spc \in {"loop", "call"}) =>
          LET j == PrecedingAssistant(Messages, Len(Messages) + 1) IN
          /\ j > 0
          /\ Messages[j].calls = CallIds(toolCalls)
          /\ ToolRun(Messages, j + 1, Len(Messages))
          /\ \A k \in (j + 1)..Len(Messages) :
                /\ PositionOf(Messages[j].calls, Messages[k].id) > 0
                /\ PositionOf(Messages[j].calls, Messages[k].id) < idx

\* both calls of a response have been answered, in order
C3_Witness ==
    /\ AllowHistory
    /\ spc = "loop"
    /\ Len(toolCalls) = 2
    /\ idx = 3
    /\ Len(Messages) >= 2
    /\ IsTool(Messages[Len(Messages)])
    /\ IsTool(Messages[Len(Messages) - 1])

\* ------------------------------------------------------------------ C4
\* C4: a turn whose every answer so far is a response with tool calls emits
\* nothing: whenever the inbound worker stands at a send on the output channel,
\* some answer of the open turn was an error, an empty response or a response
\* without tool calls.
C4_ToolOnlyTurnIsSilent ==
    spc = "emit" => \E i \in 1..Len(turnLog) : turnLog[i].kind # "tools"

\* the scheduler runs a goroutine that can take a step, and the gateway and the
\* backends answer
FairSpec == Spec /\ WF_vars(Next)

\* the liveness half of C4: a dispatched message leads back to the prompt
C4_TurnCompletes == (mpc = "await") ~> (mpc = "prompt")

\* ------------------------------------------------------------------ C5
\* C5: once a turn that ended with an error line has been signalled complete and
\* the session is not cancelled, the inbound worker is back at its select, ready
\* to take the next user message.
C5_WorkerSurvivesError ==
    (/\ stdout # <<>>
     /\ Last(stdout) \in {ErrorLine, PanicLine}
     /\ dones = turns
     /\ ~ctxDone) => spc = "select"

\* ------------------------------------------------------------------ C6
\* the inbound worker is inside a turn
InTurn == spc \in {"iterate", "loop", "call", "emit"}

\* C6: at most one dispatched message lacks its completion signal; the input
\* loop stands at its send on the job channel only when every earlier message
\* has been signalled complete, and while the inbound worker is inside a turn
\* the input loop waits for that turn.
C6_OneOutstandingTurn ==
    /\ turns - dones \in {0, 1}
    /\ Sending => turns = dones
    /\ InTurn => (mpc = "await" /\ turns = dones + 1)

\* a second message is about to be dispatched after a completed turn
C6_Witness == Sending /\ dones >= 1 /\ spc = "select"

\* ------------------------------------------------------------------ C7
\* every turn emits at most one line, and a completed turn exactly one
OneLinePerTurn ==
    /\ Len(stdout) <= turns
    /\ Len(stdout) >= turns - 1
    /\ dones = turns => Len(stdout) = turns
    /\ dones <= Len(stdout)

\* the open turn was answered with one tool call and then with a final text
OneCallThenFinal ==
    /\ Len(turnLog) = 2
    /\ turnLog[1].kind = "tools"
    /\ Len(turnLog[1].calls) = 1
    /\ turnLog[2].kind = "final"

ScenarioRoles(call, text) ==
    <<"user">> \o
    (IF AllowHistory
     THEN <<"assistant">>
          \o (IF call.type = "function" THEN <<"tool">> ELSE <<>>)
          \o (IF text # "" THEN <<"assistant">> ELSE <<>>)
     ELSE <<>>)

FinalAnswerHandled(appended) ==
    LastAnswerIs("final") =>
        /\ spc \in {"emit", "select"}
        /\ spc = "emit" =>
              /\ out = Last(turnLog).content
              /\ after = "loop"
              /\ Len(stdout) = turns - 1
              /\ Messages = IF appended
                            THEN Append(paramMessages,
                                        AssistantMessage(Last(turnLog).content, <<>>))
                            ELSE paramMessages
        /\ spc = "select" =>
              /\ Len(stdout) = turns
              /\ Last(stdout) = Last(turnLog).content

\* C8 as stated: the text of a response without tool calls is emitted once, the
\* turn ends, and the assistant message is appended exactly when AllowHistory
\* is set.
C8_FinalAppendedIffFlag == FinalAnswerHandled(AllowHistory)

\* C8 (amended): the text of a response without tool calls is emitted once, the
\* turn ends, and the assistant message is appended exactly when AllowHistory
\* is set and the text is non-empty.
C8_FinalAnswer ==
    FinalAnswerHandled(AllowHistory /\ turnLog # <<>> /\ Last(turnLog).content # "")

\* an empty final text was emitted, with history enabled
C8_Witness ==
    /\ LastAnswerIs("final")
    /\ AllowHistory
    /\ Last(turnLog).content = ""
    /\ spc = "select"
    /\ Len(stdout) = turns

\* ------------------------------------------------------------------ C9
\* C9: after a failed completion request the inbound worker emits the error line
\* once and returns: it sends no further request in the turn (the failure stays
\* the last answer, after tool rounds only) and processes no tool call.
C9_ErrorEndsTurn ==
    LastAnswerIs("error") =>
        /\ spc \in {"emit", "done"}
        /\ \A i \in 1..(Len(turnLog) - 1) : turnLog[i].kind = "tools"
        /\ spc = "emit" =>
              /\ out = ErrorLine
              /\ after = "return"
              /\ Len(stdout) = turns - 1
        /\ spc = "done" =>
              /\ Len(stdout) = turns
              /\ Last(stdout) = ErrorLine

\* a request failed after a tool round and its error line was printed
C9_Witness ==
    /\ LastAnswerIs("error")
    /\ Len(turnLog) = 2
    /\ spc = "done"
    /\ Last(stdout) = ErrorLine

\* ------------------------------------------------------------------ C10
\* C10: the step in which a completion request fails, and every step while that
\* failure is the last answer of the turn, leaves the transcript unchanged.
C10_ErrorLeavesTranscript ==
    [][(turnLog' # <<>> /\ Last(turnLog').kind = "error") => Messages' = Messages]_vars

\* a request failed after a tool round that had extended the transcript
C10_Witness ==
    /\ LastAnswerIs("error")
    /\ Len(turnLog) = 2
    /\ spc = "emit"
    /\ Len(Messages) > turnBase + 2
    /\ Messages = paramMessages

\* ------------------------------------------------------------------ C11
\* the lines the inbound worker emits for a failure
IsErrorLine(l) == l \in {ErrorLine, PanicLine}

\* C11: after a response without choices the inbound worker emits one error
\* line and returns: the transcript is the one the request carried, no call of
\* a response is processed, no further request is sent in the turn (the empty
\* response stays the last answer, after tool rounds only).
C11_EmptyResponse ==
    LastAnswerIs("empty") =>
        /\ spc \in {"emit", "done"}
        /\ \A i \in 1..(Len(turnLog) - 1) : turnLog[i].kind = "tools"
        /\ spc = "emit" =>
              /\ IsErrorLine(out)
              /\ after = "return"
              /\ Len(stdout) = turns - 1
              /\ Messages = paramMessages
        /\ spc = "done" =>
              /\ Len(stdout) = turns
              /\ IsErrorLine(Last(stdout))

\* an empty response came after a tool round and its error line was printed
C11_Witness ==
    /\ LastAnswerIs("empty")
    /\ Len(turnLog) = 2
    /\ spc = "done"
    /\ IsErrorLine(Last(stdout))
    /\ dones < turns

\* ------------------------------------------------------------------ C12
\* the range loop has just finished with a call of type function whose
\* arguments could not be parsed, repair included
ParseFailureHandled ==
    /\ spc = "loop"
    /\ idx > 1
    /\ CurrentCall(toolCalls, idx - 1).type = "function"
    /\ ParseFails(CurrentCall(toolCalls, idx - 1).args)

\* what holds for a call whose arguments cannot be parsed, for a condition
\* under which the tool message is appended: the registry is never invoked for
\* it, and once the loop has moved on the transcript ends with the one tool
\* message recording the parse error under the call's id (or has none for it)
ParseFailureRecorded(appended) ==
    /\ spc = "call" => ~ParseFails(CurrentCall(toolCalls, idx).args)
    /\ ParseFailureHandled =>
          LET call == CurrentCall(toolCalls, idx - 1) IN
          IF appended
          THEN /\ Last(Messages) = ToolMessage("error_parsing_args", call.id)
               /\ ToolReplies(Messages, 1, Len(Messages), call.id) = 1
          ELSE ToolReplies(Messages, 1, Len(Messages), call.id) = 0

BadName(name) == Len(Split(name)) # 2 \/ Split(name)[1] \notin DOMAIN sessions

\* C13: a call whose name is malformed or names an unregistered backend never
\* ends the turn (nothing is emitted while a response with tool calls is the
\* last answer), and once the loop has moved on its failure is the tool message
\* with the call's id at the end of the transcript.
C13_BadNameRecorded ==
    /\ LastAnswerIs("tools") => spc # "emit"
    /\ (/\ AllowHistory
        /\ spc = "loop"
        /\ idx > 1
        /\ CurrentCall(toolCalls, idx - 1).type = "function"
        /\ ~ParseFails(CurrentCall(toolCalls, idx - 1).args)
        /\ BadName(CurrentCall(toolCalls, idx - 1).name)) =>
            Last(Messages) = ToolMessage("tool_error", CurrentCall(toolCalls, idx - 1).id)

\* ------------------------------------------------------------------ C14
\* C14: the tool list assembled for the first request of a turn is the
\* registry's catalogue of that moment, and every re-query after tool calls is
\* sent with the registry's catalogue of the moment it is sent.
C14_CurrentCatalogue ==
    [][/\ (spc = "select" /\ spc' = "iterate") => paramTools' = Catalogue(schemas)
       /\ (spc = "iterate" /\ turnLog # <<>> /\ Len(turnLog') > Len(turnLog)) =>
              paramTools = Catalogue(schemas)]_vars

\* ------------------------------------------------------------------ C15
\* C15: every tool a registered backend reported has its entry b__t in the
\* catalogue, and a call of CallTool with the name b__t of a registered
\* backend b and a tool name t was forwarded to the session stored under b,
\* with t as the tool's name.
C15_RoundTrip ==
    /\ \A b \in DOMAIN tools : \A t \in tools[b] :
          QualifiedName(b, t) \in Catalogue(schemas)
    /\ \A b \in DOMAIN lastCall.known : \A t \in {Forecast, Hidden} :
          (lastCall.outcome # "none" /\ lastCall.name = QualifiedName(b, t)) =>
              /\ lastCall.outcome = "forwarded"
              /\ lastCall.session = lastCall.known[b]
              /\ lastCall.tool = t

\* ------------------------------------------------------------------ C16
\* strings.Count(s, "__"): the non-overlapping occurrences of the separator
RECURSIVE Count(_)
Count(s) ==
    IF Len(s) < 2 THEN 0
    ELSE IF s[1] = SepChar /\ s[2] = SepChar
         THEN 1 + Count(SubSeq(s, 3, Len(s)))
         ELSE Count(Tail(s))

\* C16: a call of CallTool with a name that does not hold exactly one
\* separator returned the format error and was forwarded to no session.
C16_RoutingError ==
    (lastCall.outcome # "none" /\ Count(lastCall.name) # 1) =>
        /\ lastCall.outcome = "invalid"
        /\ lastCall.session = 0
        /\ lastCall.tool = <<>>

\* a name with two separators was refused while its backend was registered
C16_Witness ==
    /\ lastCall.outcome = "invalid"
    /\ Count(lastCall.name) = 2
    /\ Weather \in DOMAIN lastCall.known
    /\ Split(lastCall.name)[1] = Weather

\* ------------------------------------------------------------------ C17
\* C17: a call of CallTool with a name of two parts whose backend part was not
\* registered at the call came back with an error value: it neither panicked
\* nor was forwarded.
C17_NotFoundError ==
    (/\ lastCall.outcome # "none"
     /\ Len(Split(lastCall.name)) = 2
     /\ Split(lastCall.name)[1] \notin DOMAIN lastCall.known) =>
        lastCall.outcome \notin {"panic", "forwarded"}

\* ------------------------------------------------------------------ C18
\* C18: a call of RegisterServer whose Connect gave no session goes no further
\* than returning an error: it does not go on to ListTools and does not panic.
C18_ConnectFailure ==
    \A p \in Registrars :
        rg[p].session = 0 =>
            /\ rg[p].pc \in {"idle", "connect"}
            /\ rg[p].result \in {"none", "error"}

\* ------------------------------------------------------------------ C19
\* C19: a call of RegisterServer with an empty name or an empty endpoint returns
\* an error at once: it opens no session and leaves sessions, tools, schemas,
\* the order list and every open session as they were.
C19_Validation ==
    [][\A p \in Registrars :
          (/\ rg[p].pc = "idle"
           /\ rg'[p] # rg[p]
           /\ (rg'[p].name = <<>> \/ rg'[p].endpoint = "")) =>
              /\ rg'[p].pc = "idle"
              /\ rg'[p].result = "error"
              /\ rg'[p].session = 0
              /\ UNCHANGED <<sessions, tools, schemas, order, closed, listing>>]_vars

\* a call with a name and an empty endpoint was refused after another call had
\* replaced main's registration
C19_Witness ==
    /\ \E p \in Registrars :
          /\ rg[p].pc = "idle"
          /\ rg[p].result = "error"
          /\ rg[p].name # <<>>
          /\ rg[p].endpoint = ""
    /\ Weather \in DOMAIN sessions
    /\ sessions[Weather] # FirstSession

\* ------------------------------------------------------------------ C20
\* the session is stored in the registry
Stored(c) == \E n \in DOMAIN sessions : sessions[n] = c

\* the session is held by a call of RegisterServer in progress
Held(c) == \E p \in Registrars : rg[p].pc # "idle" /\ rg[p].session = c

\* C20: whenever the write lock is not held, the three maps have the same
\* names, every name maps to one session that is open, its tools are those
\* that session reported and its schemas are built from them; and every
\* session ever opened is stored, closed, or held by a call in progress, so a
\* replaced session was closed.
C20_AtomicSwap ==
    mu = "free" =>
        /\ DOMAIN tools = DOMAIN sessions
        /\ DOMAIN schemas = DOMAIN sessions
        /\ \A n \in DOMAIN sessions :
              /\ sessions[n] \notin closed
              /\ tools[n] = listing[sessions[n]]
              /\ schemas[n] = SchemasFor(n, tools[n])
        /\ \A c \in DOMAIN listing : Stored(c) \/ c \in closed \/ Held(c)

\* main's backend was registered again with another tool set: the first
\* session is closed and the new one stored with its tools and schemas
C20_Witness ==
    /\ mu = "free"
    /\ \A p \in Registrars : rg[p].pc = "idle"
    /\ Weather \in DOMAIN sessions
    /\ sessions[Weather] # FirstSession
    /\ FirstSession \in closed
    /\ tools[Weather] = {Forecast, Hidden}
    /\ schemas[Weather] = SchemasFor(Weather, {Forecast, Hidden})

\* ------------------------------------------------------------------ exit
\* both workers have returned and the input loop's wg.Wait() has returned
SessionEnded == mpc = "exited" /\ spc = "done" /\ rpc = "done" /\ wg = 0

\* C26: once an exit command is taken, the session ends: both workers return
\* and the input loop's wait for them returns, whatever the earlier turns
\* were; and from the exit command on nothing more is printed.
C26_ExitTerminates ==
    /\ (mpc = "close") ~> SessionEnded
    /\ [][(mpc \in {"close", "wait", "exited"}) => (stdout' = stdout)]_vars

\* the session ended after a turn that printed an error line
C26_Witness ==
    /\ SessionEnded
    /\ jobsClosed /\ recvClosed
    /\ \E i \in 1..Len(stdout) : IsErrorLine(stdout[i])

\* C27: no goroutine stands at a send on a closed channel.  The job channel is
\* closed only once its sender, the input loop, has left its loop; the output
\* channel is closed only once both workers have returned and the wait group
\* is at zero.
C27_NoSendOnClosed ==
    /\ jobsClosed => (~Sending /\ mpc \in {"wait", "exited"})
    /\ recvClosed => (spc = "done" /\ rpc = "done" /\ wg = 0)

\* both channels were used in two turns and are closed
C27_Witness == jobsClosed /\ recvClosed /\ turns >= 2 /\ dones >= 2

\* C28: in every state the transcript is not empty and its first element is
\* the system message.
C28_SystemMessageFirst == Messages # <<>> /\ Messages[1] = SystemMessage

\* the transcript grew by a tool round, a second turn began and an error line
\* was printed, and the system message is still its first element
C28_Witness ==
    /\ Len(Messages) >= 6
    /\ Messages[1] = SystemMessage
    /\ \E i \in 2..Len(Messages) : IsTool(Messages[i])
    /\ turns >= 2
    /\ \E i \in 1..Len(stdout) : IsErrorLine(stdout[i])

\* C29: while a turn is in progress, the transcript its user message was
\* appended to had at most 1 + 2 * HistorySize messages.
C29_WindowBound == InTurn => turnBase <= 1 + 2 * HistorySize

\* C30: the map ensureObjectSchema returns has the type "object", has the key
\* properties and none of $defs, $schema and $id, and has every other key of
\* the input with the input's value.
C30_ObjectSchema ==
    epc = "returned" =>
        /\ "type" \in DOMAIN normalized /\ normalized["type"] = Str("object")
        /\ "properties" \in DOMAIN normalized
        /\ DOMAIN normalized \cap {"$defs", "$schema", "$id"} = {}
        /\ \A k \in DOMAIN schema.m \ {"type", "$defs", "$schema", "$id"} :
              k \in DOMAIN normalized /\ normalized[k] = schema.m[k]

\* a step removed everything registered under the name and nothing else
Removed(name) ==
    /\ name \in DOMAIN sessions => sessions[name] \in closed'
    /\ name \notin DOMAIN sessions'
    /\ name \notin DOMAIN tools'
    /\ name \notin DOMAIN schemas'
    /\ Catalogue(schemas') = UNION {schemas[b] : b \in DOMAIN schemas \ {name}}
    /\ name \notin ListServers'
    /\ \A i \in 1..Len(ListServersInOrder') : ListServersInOrder'[i] # name
    /\ sessions' = Delete(sessions, name)
    /\ tools' = Delete(tools, name)
    /\ schemas' = Delete(schemas, name)
    /\ ListServersInOrder' = SelectSeq(ListServersInOrder, LAMBDA n : n # name)

\* C24: every call of UnregisterServer closes and removes the session of its
\* name, leaves the name without tools and schemas, absent from the catalogue
\* and from the lists of ListServers and ListServersInOrder, and leaves the
\* entries of the other names as they were.
C24_UnregisterRemovesAll ==
    [][(unregisterCalls' = unregisterCalls + 1) =>
          \E name \in UnregisterNames : Removed(name)]_vars

\* C25: UnregisterServer never writes the registry's maps while a tool list is
\* being assembled from them: the assembly reads the maps only under the read
\* lock, which excludes the writer.
C25_NoReadOverlapsWrite ==
    [][(unregisterCalls' = unregisterCalls + 1) => ~assembling]_vars

\* ------------------------------------------------------------------ batch registration
Ended(p) == bg[p].pc = "ended"

\* the goroutine of q used up its attempts and returned its last error
Exhausted(q) == Ended(q) /\ bg[q].calls = MaxAttempts /\ bg[q].result = RegisterErr(q)

\* the backend of goroutine p is in the registry
Registered(p) == BatchCfg(p).name \in DOMAIN sessions

\* the backend of p never registers, whatever the number of attempts
AlwaysFails(p) == health[p] \in {"mute", "down", "unset"}

\* C21: once no goroutine of the batch runs any more and some backend has
\* used up its attempts, every backend that answers within its three attempts
\* (at once, or from its second attempt on) is registered.
C21_OthersStillRegister ==
    ((\A p \in Registrars : Ended(p)) /\ (\E q \in Registrars : Exhausted(q))) =>
        \A p \in Registrars : health[p] \in {"up", "late"} => Registered(p)

\* C22: a backend gets at most MaxAttempts calls of RegisterServer and none
\* after its first success; a backend that always fails has had exactly
\* MaxAttempts calls when its goroutine is over; the first wait is
\* FirstBackoff and every later wait twice the one before.
C22_AttemptsAndBackoff ==
    \A p \in Registrars :
        /\ bg[p].calls <= MaxAttempts
        /\ (Ended(p) /\ bg[p].result = NoErr) => bg[p].calls = Len(bg[p].waits) + 1
        /\ (AlwaysFails(p) /\ (Ended(p) \/ rg[p].pc = "panicked")) =>
              bg[p].calls = MaxAttempts
        /\ \A i \in 1..Len(bg[p].waits) :
              bg[p].waits[i] = IF i = 1 THEN FirstBackoff ELSE 2 * bg[p].waits[i - 1]

\* the result of the first goroutine that returned an error
FirstError ==
    LET failed == SelectSeq(finished, LAMBDA p : bg[p].result # NoErr)
    IN  IF failed = <<>> THEN NoErr ELSE bg[failed[1]].result

\* C23: when RegisterServers has returned, every goroutine has returned; the
\* result is nil exactly when every backend registered and otherwise the
\* first error a goroutine returned; every backend whose goroutine returned
\* nil is registered; and in a batch of a healthy weather and a notion that
\* always fails, weather is registered and the result is notion's error.
C23_BatchResult ==
    batchResult # Pending =>
        /\ \A p \in Registrars : Ended(p)
        /\ batchResult = NoErr <=> \A p \in Registrars : Registered(p)
        /\ batchResult = FirstError
        /\ \A p \in Registrars : bg[p].result = NoErr => Registered(p)
        /\ (health["r1"] = "up" /\ AlwaysFails("r2")) =>
              (Weather \in DOMAIN sessions /\ batchResult.of = "r2")

\* C31: applied to the map it returned, ensureObjectSchema returns the same
\* map: the same keys with the same values.
C31_Idempotent ==
    epc = "again" =>
        /\ DOMAIN normalized = DOMAIN schema.m
        /\ normalized = schema.m

\* the second call was made on a normalized schema that kept its required
\* list, its properties and a type that is not "object"
C31_Witness ==
    /\ epc = "again"
    /\ "required" \in DOMAIN normalized
    /\ normalized["properties"] # EmptyObject
    /\ normalized["type"] = Str("array")

\* C32: the input loop leaves its switch in one of three ways, decided by the
\* trimmed line alone.  On the empty line it goes back to the prompt, no
\* message is dispatched and the transcript is unchanged.  On exactly exit,
\* quit or bye it starts the shutdown and dispatches nothing.  On any other
\* line, a line that differs from an exit command by case included, it
\* dispatches that line as one user turn.  While it stands at the switch no
\* turn starts.
C32_Classification ==
    [][IF mpc = "switch" /\ mpc' # "switch"
       THEN IF userMessage = ""
            THEN /\ mpc' = "prompt"
                 /\ turns' = turns /\ Messages' = Messages
                 /\ ctxDone' = ctxDone /\ jobsClosed' = jobsClosed
            ELSE IF userMessage \in {"exit", "quit", "bye"}
            THEN /\ mpc' = "close" /\ ctxDone'
                 /\ turns' = turns /\ Messages' = Messages
            ELSE /\ mpc' = "await"
                 /\ turns' = turns + 1
                 /\ Messages' = Append(Messages, UserMessage(userMessage))
                 /\ ctxDone' = ctxDone /\ jobsClosed' = jobsClosed
       ELSE (mpc = "switch") => (turns' = turns)]_vars

\* the line Exit was dispatched as a user turn, and later an exit command
\* started the shutdown
C32_Witness ==
    /\ mpc = "close"
    /\ turns >= 1
    /\ \E i \in 1..Len(Messages) : Messages[i] = UserMessage("Exit")

\* C33: when the inbound worker is about to send a request again after a tool
\* round, every call listed in the last assistant message of the transcript, if
\* the turn appended one, has exactly one tool message with its id after it.
C33_EveryCallAnswered ==
    (spc = "iterate" /\ LastAnswerIs("tools")) =>
        LET j == PrecedingAssistant(Messages, Len(Messages) + 1) IN
        (j > turnBase /\ HasCalls(Messages[j])) =>
            \A k \in 1..Len(Messages[j].calls) :
                ToolReplies(Messages, j + 1, Len(Messages), Messages[j].calls[k]) = 1

\* C34: when the inbound worker is about to send a request again after a tool
\* round, the transcript is the one the previous request of the turn carried,
\* then the assistant message with the calls, then at least one tool message.
C34_RequeryGrows ==
    (spc = "iterate" /\ LastAnswerIs("tools")) =>
        /\ Len(Messages) >= Len(paramMessages) + 2
        /\ SubSeq(Messages, 1, Len(paramMessages)) = paramMessages
        /\ HasCalls(Messages[Len(paramMessages) + 1])
        /\ ToolRun(Messages, Len(paramMessages) + 2, Len(Messages))

\* ------------------------------------------------------------------ sessions
\* no call on the registry is in progress
Quiescent == mu = "free" /\ \A p \in Registrars : rg[p].pc = "idle"

\* C35: when no call is in progress, every session Connect ever returned is
\* stored in the registry or closed, and the session of each caller's last
\* call is the one stored under the name of that call or closed.
C35_NoSessionLeak ==
    Quiescent =>
        /\ \A c \in DOMAIN listing : Stored(c) \/ c \in closed
        /\ \A p \in Registrars :
              rg[p].session # 0 =>
                  \/ rg[p].session \in closed
                  \/ /\ rg[p].name \in DOMAIN sessions
                     /\ sessions[rg[p].name] = rg[p].session

\* no call is in progress after one call replaced main's registration, which
\* closed the first session, and another closed its session when listing failed
C35_Witness ==
    /\ Quiescent
    /\ FirstSession \in closed
    /\ Weather \in DOMAIN sessions
    /\ \E p \in Registrars :
          rg[p].result = "error" /\ rg[p].session # 0 /\ rg[p].session \in closed

\* C36: a call of RegisterServer that connected and whose listing fails
\* returns an error with its new session closed, and the step leaves sessions,
\* tools, schemas and the order list as they were.
C36_ListFailure ==
    [][\A p \in Registrars :
          (rg[p].pc = "list" /\ rg[p].session # 0 /\ rg'[p].pc = "idle") =>
              /\ rg'[p].result = "error"
              /\ rg[p].session \in closed'
              /\ UNCHANGED <<sessions, tools, schemas, order>>]_vars

\* a call for the name main registered failed at listing: its session is
\* closed, and the name still has main's session, tools and schemas
C36_Witness ==
    /\ \E p \in Registrars :
          /\ rg[p].pc = "idle" /\ rg[p].result = "error"
          /\ rg[p].name = Weather
          /\ rg[p].session # 0 /\ rg[p].session \in closed
    /\ Weather \in DOMAIN sessions
    /\ sessions[Weather] = FirstSession
    /\ FirstSession \notin closed
    /\ tools[Weather] = {Forecast}
    /\ order = <<Weather>>

\* C37: whenever the lock can be taken by an observer, that is whenever no
\* writer holds it, sessions, tools and schemas have the same set of names.
C37_SameKeys ==
    mu = "free" => (DOMAIN sessions = DOMAIN tools /\ DOMAIN tools = DOMAIN schemas)

\* main's backend was unregistered and another name registered; a second
\* registration is in progress outside the lock
C37_Witness ==
    /\ mu = "free"
    /\ unregisterCalls >= 1
    /\ DOMAIN sessions = {Underscored}
    /\ DOMAIN schemas = {Underscored}
    /\ \E p \in Registrars : rg[p].pc \in {"connect", "list", "lock"}

\* C38: no name stands twice in the order list; whenever no writer holds the
\* lock every registered name is in the list; and the list changes only by a
\* successful registration appending its name, which was not in the list, so
\* the names stand in the order of their first successful registrations.
C38_OrderList ==
    /\ [](\A i, j \in 1..Len(order) : order[i] = order[j] => i = j)
    /\ [](mu = "free" => \A n \in DOMAIN sessions : \E i \in 1..Len(order) : order[i] = n)
    /\ [][(order' # order) =>
             \E p \in Registrars :
                 /\ rg[p].pc = "order" /\ rg'[p].result = "ok"
                 /\ \A i \in 1..Len(order) : order[i] # rg[p].name
                 /\ order' = Append(order, rg[p].name)
                 /\ sessions[rg[p].name] = rg[p].session]_vars

\* main's backend was registered again and a second name registered after it
C38_Witness ==
    /\ Quiescent
    /\ order = <<Weather, Underscored>>
    /\ DOMAIN sessions = {Weather, Underscored}
    /\ sessions[Weather] # FirstSession

\* ------------------------------------------------------------------ streaming strategy
\* StreamStrategy runs under the same input loop: NewSenderRecieverStrategy
\* returns it for every kind but "once".  The three goroutines share the
\* unbuffered channels JobMessages, ReceiveMessages and doneChan.

\* the variables of StrategyOnce the streaming strategy has no use for
onceVars == <<paramTools, paramMessages, toolCalls, idx, out, after, turnBase, turnLog, nextId>>

\* "delta" is a chunk whose choice carries content, "finish" one that carries none
Deltas(k) == [i \in 1..k |-> "delta"]

\* what Chat.Completions.NewStreaming may deliver before stream.Next() turns
\* false: some content chunks and the closing chunk, or a stream cut short by
\* an error (with no chunk at all when the request itself failed)
Streams ==
    {Deltas(k) : k \in 0..MaxChunks} \cup {Append(Deltas(k), "finish") : k \in 0..MaxChunks}

\* acc.AddChunk(chunk)
AddChunk(a, chunk) ==
    [state |-> IF chunk = "delta" THEN "content" ELSE "finished",
     content |-> IF chunk = "delta" THEN a.content + 1 ELSE a.content]

\* acc.JustFinishedContent() after AddChunk(chunk) on the accumulator a: the
\* content ended with this chunk
JustFinishedContent(a, chunk) == a.state = "content" /\ chunk # "delta"

\* utils.MakeHistoryWindow: the system message and the most recent n turns
MakeHistoryWindow(msgs, m, n) ==
    IF Len(msgs) <= 1 + 2 * n
    THEN msgs
    ELSE <<msgs[1]>> \o SubSeq(msgs, Len(msgs) - 2 * n + 1, Len(msgs))

\* const prefix, written once at the start of a reply
Prefix == "Chatbot: "

\* case message, ok := <-messages: the input loop's send is taken, the window
\* made, the user message appended and the stream opened.  The input loop has
\* dispatched = true before it and is not yet waiting on doneChan.
StreamStartTurn ==
    /\ spc = "select"
    /\ Sending
    /\ ~jobsClosed
    /\ mpc' = "dispatched"
    /\ userMessage' = ""
    /\ Messages' = WithUserMessage(MakeHistoryWindow(Messages, userMessage, HistorySize),
                                   userMessage)
    /\ turns' = turns + 1
    /\ pending' \in Streams
    /\ acc' = NoAcc
    /\ spc' = "next"
    /\ UNCHANGED <<AllowHistory, schemaVars, assembling, batchVars, inStream, sessions,
                   onceVars, ctxDone, jobsClosed, recvClosed, dones, wg>>
    /\ UNCHANGED recvVars
    /\ UNCHANGED regVars

\* if dispatched { select { case <-doneChan: ...: the input loop reaches the
\* select and waits on doneChan.  Only the input loop cancels the context, so
\* the select's other case is not ready while it waits.
StreamPark ==
    /\ mpc = "dispatched"
    /\ mpc' = "await"
    /\ UNCHANGED <<AllowHistory, mcpVars, sessions, userMessage, ctxDone, jobsClosed, recvClosed,
                   dones, wg>>
    /\ UNCHANGED <<sendVars, recvVars>>
    /\ UNCHANGED regVars

\* for stream.Next() { chunk := stream.Current(); acc.AddChunk(chunk); ...:
\* the worker then stands at the send of the sentinel, at the send of the
\* chunk's content, or at the next stream.Next()
StreamNextChunk ==
    /\ spc = "next"
    /\ pending # <<>>
    /\ acc' = AddChunk(acc, Head(pending))
    /\ pending' = Tail(pending)
    /\ spc' = IF JustFinishedContent(acc, Head(pending)) THEN "sentinel"
              ELSE IF Head(pending) = "delta" THEN "delta" ELSE "next"
    /\ UNCHANGED <<AllowHistory, schemaVars, assembling, batchVars, inStream, sessions,
                   Messages, turns, onceVars, wg>>
    /\ UNCHANGED <<mainVars, recvVars>>
    /\ UNCHANGED regVars

\* stream.Next() returned false: the error and the usage are logged, and the
\* accumulated message is appended when it has content and AllowHistory is set
StreamEnd ==
    /\ spc = "next"
    /\ pending = <<>>
    /\ acc.state # "none"
    /\ Messages' = IF acc.content > 0 /\ AllowHistory
                   THEN Append(Messages, AssistantMessage("reply", <<>>))
                   ELSE Messages
    /\ acc' = NoAcc
    /\ spc' = "select"
    /\ UNCHANGED <<AllowHistory, schemaVars, assembling, batchVars, pending, inStream, sessions,
                   turns, onceVars, wg>>
    /\ UNCHANGED <<mainVars, recvVars>>
    /\ UNCHANGED regVars

\* acc.Choices[0] on an accumulator that got no chunk: index out of range.
\* StreamStrategy.SendtoOpenAI recovers from nothing, so the program ends.
StreamPanic ==
    /\ spc = "next"
    /\ pending = <<>>
    /\ acc.state = "none"
    /\ spc' = "panicked"
    /\ mpc' = "killed"
    /\ rpc' = "killed"
    /\ UNCHANGED <<AllowHistory, mcpVars, sessions, Messages, turns, onceVars, wg, stdout,
                   userMessage, ctxDone, jobsClosed, recvClosed, dones>>
    /\ UNCHANGED regVars

\* case msg, ok := <-messages with a token: the prefix is written when no reply
\* is being printed, then the token
StreamRecvToken ==
    /\ rpc = "select"
    /\ spc = "delta"
    /\ stdout' = IF inStream THEN Append(stdout, "tok") ELSE stdout \o <<Prefix, "tok">>
    /\ inStream' = TRUE
    /\ spc' = "next"
    /\ UNCHANGED <<AllowHistory, schemaVars, assembling, batchVars, pending, acc, sessions,
                   Messages, turns, onceVars, wg, rpc>>
    /\ UNCHANGED mainVars
    /\ UNCHANGED regVars

\* msg == endSentinel: inside a reply the line is ended and the worker goes on
\* to notify; outside one the sentinel is skipped
StreamRecvSentinel ==
    /\ rpc = "select"
    /\ spc = "sentinel"
    /\ spc' = "next"
    /\ IF inStream
       THEN stdout' = Append(stdout, "\n") /\ rpc' = "notify"
       ELSE UNCHANGED <<stdout, rpc>>
    /\ UNCHANGED <<AllowHistory, mcpVars, sessions, Messages, turns, onceVars, wg>>
    /\ UNCHANGED mainVars
    /\ UNCHANGED regVars

\* select { case done <- true: default: }; inStream = false.  The send on the
\* unbuffered doneChan is taken only when the input loop is waiting on it.
StreamNotify ==
    /\ rpc = "notify"
    /\ IF mpc = "await"
       THEN mpc' = "prompt" /\ dones' = dones + 1
       ELSE UNCHANGED <<mpc, dones>>
    /\ inStream' = FALSE
    /\ rpc' = "select"
    /\ UNCHANGED <<AllowHistory, schemaVars, assembling, batchVars, pending, acc, sessions,
                   userMessage, ctxDone, jobsClosed, recvClosed, wg, stdout>>
    /\ UNCHANGED sendVars
    /\ UNCHANGED regVars

\* case <-ctx.Done(): select { case done <- false: default: }; return.  The
\* worker's other way out, a closed ReceiveMessages, comes only after wg.Wait()
\* and so after the worker itself returned.
StreamRecvCtxDone ==
    /\ rpc = "select"
    /\ ctxDone
    /\ IF mpc = "await"
       THEN mpc' = "prompt" /\ dones' = dones + 1
       ELSE UNCHANGED <<mpc, dones>>
    /\ rpc' = "done"
    /\ wg' = wg - 1
    /\ UNCHANGED <<AllowHistory, mcpVars, sessions, userMessage, ctxDone, jobsClosed, recvClosed,
                   stdout>>
    /\ UNCHANGED sendVars
    /\ UNCHANGED regVars

StreamNext ==
    \/ ReadLine
    \/ Reprompt
    \/ ExitCancel
    \/ ExitClose
    \/ ExitWait
    \/ SendCtxDone
    \/ SendJobsClosed
    \/ StreamStartTurn
    \/ StreamPark
    \/ StreamNextChunk
    \/ StreamEnd
    \/ StreamPanic
    \/ StreamRecvToken
    \/ StreamRecvSentinel
    \/ StreamNotify
    \/ StreamRecvCtxDone

StreamSpec == Init /\ [][StreamNext]_vars

\* replies the outbound worker ended on their end-of-stream sentinel
RepliesEnded == Cardinality({i \in 1..Len(stdout) : stdout[i] = "\n"})

\* C39: in the streaming strategy, once the outbound worker has dealt with an
\* end-of-stream sentinel the input loop has received one completion signal for
\* every reply ended so far.
C39_SignalReceived == rpc = "select" => dones = RepliesEnded

====
